---------------------------- MODULE Spec2Model ----------------------------
(***************************************************************************)
(* Station uptime computation of charger-uptime (src/main.py).             *)
(*                                                                         *)
(* Two specifications share the module:                                    *)
(*   Spec       the program: parse_input_file consumes the input one line  *)
(*              at a time, then main calls compute_station_uptimes and     *)
(*              prints the result;                                         *)
(*   SpecMerge  merge_intervals applied to every bounded list of intervals *)
(*              and then to its own output.                                *)
(***************************************************************************)
EXTENDS Integers, Sequences, FiniteSets

VARIABLES
    pc,               \* position of the program / of the merge harness
    section,          \* parse_input_file: current section
    station_chargers, \* parse_input_file: dict station_id -> set of charger ids
    charger_reports,  \* parse_input_file: dict charger_id -> list of (start, end, up)
    station_uptimes,  \* result of compute_station_uptimes
    output,           \* lines printed by main, each <<station_id, pct>>
    intervals,        \* merge_intervals: argument
    merged,           \* merge_intervals(intervals)
    remerged          \* merge_intervals(merged)

vars == <<pc, section, station_chargers, charger_reports,
          station_uptimes, output, intervals, merged, remerged>>

parseVars == <<section, station_chargers, charger_reports>>
mainVars  == <<station_uptimes, output>>
mergeVars == <<intervals, merged, remerged>>

---------------------------------------------------------------------------
(* Bounds of the model *)

MaxReports == 2     \* report lines in one input file
MaxT == 3           \* SpecMerge: interval endpoints range over 0..MaxT
MaxLen == 3         \* SpecMerge: length of the list given to merge_intervals

StationIds == {0, 1}
ChargerIds == {1, 2}

\* the times a report line may name: windows of length 1, 2 and 3
Times == {0, 1, 3}

---------------------------------------------------------------------------
(* Python dict and list helpers *)

EmptyDict == [k \in {} |-> 0]

DictSet(d, k, v) == [x \in (DOMAIN d) \cup {k} |-> IF x = k THEN v ELSE d[x]]

DictGet(d, k, default) == IF k \in DOMAIN d THEN d[k] ELSE default

RECURSIVE SeqSum(_)
SeqSum(s) == IF s = <<>> THEN 0 ELSE Head(s) + SeqSum(Tail(s))

RECURSIVE SeqMin(_)
SeqMin(s) ==
    IF Len(s) = 1 THEN s[1]
    ELSE LET m == SeqMin(Tail(s)) IN IF s[1] < m THEN s[1] ELSE m

RECURSIVE SeqMax(_)
SeqMax(s) ==
    IF Len(s) = 1 THEN s[1]
    ELSE LET m == SeqMax(Tail(s)) IN IF s[1] > m THEN s[1] ELSE m

SetMin(S) == CHOOSE x \in S : \A y \in S : x <= y

\* sorted(keys): ascending list of a set of integers
RECURSIVE SortedKeys(_)
SortedKeys(S) ==
    IF S = {} THEN <<>>
    ELSE LET m == SetMin(S) IN <<m>> \o SortedKeys(S \ {m})

\* every order in which a set can be iterated
Orders(S) ==
    {f \in [1..Cardinality(S) -> S] : \A x \in S : \E i \in DOMAIN f : f[i] = x}

---------------------------------------------------------------------------
(* merge_intervals *)

\* sort key (x[0], x[1]): a sorts no later than b
KeyLeq(a, b) == a[1] < b[1] \/ (a[1] = b[1] /\ a[2] <= b[2])

RECURSIVE InsertSorted(_, _)
InsertSorted(s, x) ==
    IF s = <<>> THEN <<x>>
    ELSE IF KeyLeq(s[Len(s)], x) THEN Append(s, x)
    ELSE Append(InsertSorted(SubSeq(s, 1, Len(s) - 1), x), s[Len(s)])

\* mutant of sorted: the list is left in its input order
NoSort(s) == s

\* sorted(intervals, key=lambda x: (x[0], x[1]))
RECURSIVE sorted(_)
sorted(s) ==
    IF s = <<>> THEN <<>>
    ELSE InsertSorted(sorted(SubSeq(s, 1, Len(s) - 1)), s[Len(s)])

\* mutants of Disjoint
DisjointGeq(ivs, i, acc) == ivs[i][1] >= acc[Len(acc)][2]
DisjointPrev(ivs, i, acc) == ivs[i][1] > ivs[i - 1][2]

\* `if start > last[1]`: the i-th sorted interval starts after the last merged one
Disjoint(ivs, i, acc) == ivs[i][1] > acc[Len(acc)][2]

\* mutant of Extend
ExtendAlways(acc, end) == [acc EXCEPT ![Len(acc)] = <<acc[Len(acc)][1], end>>]

\* `if end > last[1]: last[1] = end`
Extend(acc, end) ==
    IF end > acc[Len(acc)][2]
    THEN [acc EXCEPT ![Len(acc)] = <<acc[Len(acc)][1], end>>]
    ELSE acc

RECURSIVE MergeLoop(_, _, _)
MergeLoop(ivs, i, acc) ==
    IF i > Len(ivs) THEN acc
    ELSE IF Disjoint(ivs, i, acc)
         THEN MergeLoop(ivs, i + 1, Append(acc, ivs[i]))
         ELSE MergeLoop(ivs, i + 1, Extend(acc, ivs[i][2]))

merge_intervals(ivs) ==
    IF ivs = <<>> THEN <<>>
    ELSE LET s == sorted(ivs) IN MergeLoop(s, 2, <<s[1]>>)

---------------------------------------------------------------------------
(* compute_station_uptimes *)

\* mutant of all_entries: every charger's reports, declared under the station or not
RECURSIVE AllChargersEntries(_, _)
AllChargersEntries(order, cr) ==
    IF DOMAIN cr = {} THEN <<>>
    ELSE LET c == SetMin(DOMAIN cr)
         IN cr[c] \o AllChargersEntries(order, [x \in (DOMAIN cr) \ {c} |-> cr[x]])

\* the reports of the station's chargers, in iteration order
RECURSIVE all_entries(_, _)
all_entries(order, cr) ==
    IF order = <<>> THEN <<>>
    ELSE DictGet(cr, Head(order), <<>>) \o all_entries(Tail(order), cr)

StartsOf(entries) == [i \in DOMAIN entries |-> entries[i][1]]
EndsOf(entries) == [i \in DOMAIN entries |-> entries[i][2]]

RECURSIVE up_intervals(_)
up_intervals(entries) ==
    IF entries = <<>> THEN <<>>
    ELSE IF Head(entries)[3]
         THEN <<<<Head(entries)[1], Head(entries)[2]>>>> \o up_intervals(Tail(entries))
         ELSE up_intervals(Tail(entries))

total_span(entries) == SeqMax(EndsOf(entries)) - SeqMin(StartsOf(entries))

IntervalLengths(ivs) == [i \in DOMAIN ivs |-> ivs[i][2] - ivs[i][1]]

\* mutant of up_time: the up intervals summed without merging
UpTimeUnmerged(entries) == SeqSum(IntervalLengths(up_intervals(entries)))

up_time(entries) == SeqSum(IntervalLengths(merge_intervals(up_intervals(entries))))

\* mutant of uptime_pct: divides before multiplying
PctDivideFirst(up, span) == (up \div span) * 100

uptime_pct(up, span) == (up * 100) \div span

Clamp(p) == IF p < 0 THEN 0 ELSE IF p > 100 THEN 100 ELSE p

\* mutants of NoData
NoDataSkip(acc, sid) == acc
NoDataFull(acc, sid) == DictSet(acc, sid, 100)

\* `if not all_entries: station_uptimes[station_id] = 0; continue`
NoData(acc, sid) == DictSet(acc, sid, 0)

\* one iteration of the loop over the stations
StationBody(acc, sid, order, cr) ==
    LET entries == all_entries(order, cr) IN
    IF entries = <<>> THEN NoData(acc, sid)
    ELSE IF total_span(entries) <= 0 THEN DictSet(acc, sid, 0)
    ELSE DictSet(acc, sid, Clamp(uptime_pct(up_time(entries), total_span(entries))))

RECURSIVE StationLoop(_, _, _, _, _)
StationLoop(ids, i, ord, cr, acc) ==
    IF i > Len(ids) THEN acc
    ELSE StationLoop(ids, i + 1, ord, cr, StationBody(acc, ids[i], ord[ids[i]], cr))

\* the ways `for cid in chargers` can visit each station's set of chargers
IterationOrders(sc) ==
    {ord \in [DOMAIN sc -> UNION {Orders(S) : S \in SUBSET ChargerIds}] :
        \A sid \in DOMAIN sc : ord[sid] \in Orders(sc[sid])}

\* ord[sid] is the order in which `for cid in chargers` visits station sid's set
compute_station_uptimes(sc, cr, ord) ==
    StationLoop(SortedKeys(DOMAIN sc), 1, ord, cr, EmptyDict)

\* main: `for station_id in sorted(uptimes.keys()): print(...)`
PrintedLines(uptimes) ==
    LET ids == SortedKeys(DOMAIN uptimes)
    IN [i \in DOMAIN ids |-> <<ids[i], uptimes[ids[i]]>>]

---------------------------------------------------------------------------
(* The program *)

TotalReports(cr) ==
    LET RECURSIVE Count(_)
        Count(S) == IF S = {} THEN 0
                    ELSE LET c == SetMin(S) IN Len(cr[c]) + Count(S \ {c})
    IN Count(DOMAIN cr)

Init ==
    /\ pc = "parse"
    /\ section = "none"
    /\ station_chargers = EmptyDict
    /\ charger_reports = EmptyDict
    /\ station_uptimes = EmptyDict
    /\ output = <<>>
    /\ intervals = <<>>
    /\ merged = <<>>
    /\ remerged = <<>>

\* a line "[Stations]" or "[Charger Availability Reports]"
SectionHeader ==
    /\ pc = "parse"
    /\ \E s \in {"stations", "reports"} : section' = s
    /\ UNCHANGED <<pc, station_chargers, charger_reports, mainVars, mergeVars>>

\* sys.exit(1): the process ends and the dictionaries built so far are gone
Exit ==
    /\ pc' = "error"
    /\ section' = "none"
    /\ station_chargers' = EmptyDict
    /\ charger_reports' = EmptyDict

\* a header naming no known section
UnknownHeader ==
    /\ pc = "parse"
    /\ Exit
    /\ UNCHANGED <<mainVars, mergeVars>>

\* a line "<station_id> <charger_id> ..." in the stations section
StationLine ==
    /\ pc = "parse"
    /\ section = "stations"
    /\ \E station_id \in StationIds, charger_ids \in (SUBSET ChargerIds) \ {{}} :
         station_chargers' =
            DictSet(station_chargers, station_id,
                    DictGet(station_chargers, station_id, {}) \cup charger_ids)
    /\ UNCHANGED <<pc, section, charger_reports, mainVars, mergeVars>>

\* a line "<charger_id> <start> <end> <up>" in the reports section
ReportLine ==
    /\ pc = "parse"
    /\ section = "reports"
    /\ TotalReports(charger_reports) < MaxReports
    /\ \E charger_id \in ChargerIds, start \in Times, end \in Times, up \in BOOLEAN :
         IF end < start
         THEN Exit
         ELSE /\ charger_reports' =
                    DictSet(charger_reports, charger_id,
                            Append(DictGet(charger_reports, charger_id, <<>>),
                                   <<start, end, up>>))
              /\ UNCHANGED <<pc, section, station_chargers>>
    /\ UNCHANGED <<mainVars, mergeVars>>

\* a line of a section that does not parse: too few or too many fields, a
\* field that is no integer, an up value that is neither true nor false
MalformedLine ==
    /\ pc = "parse"
    /\ section \in {"stations", "reports"}
    /\ Exit
    /\ UNCHANGED <<mainVars, mergeVars>>

\* a non-blank line before any section header
LineOutsideSection ==
    /\ pc = "parse"
    /\ section = "none"
    /\ Exit
    /\ UNCHANGED <<mainVars, mergeVars>>

\* end of input: parse_input_file returns its two dictionaries (its local
\* `section` is gone), main computes the uptimes and prints them
RunMain ==
    /\ pc = "parse"
    /\ \E ord \in IterationOrders(station_chargers) :
         station_uptimes' = compute_station_uptimes(station_chargers, charger_reports, ord)
    /\ output' = PrintedLines(station_uptimes')
    /\ pc' = "done"
    /\ section' = "none"
    /\ UNCHANGED <<station_chargers, charger_reports, mergeVars>>

Next ==
    \/ SectionHeader
    \/ UnknownHeader
    \/ StationLine
    \/ ReportLine
    \/ MalformedLine
    \/ LineOutsideSection
    \/ RunMain

Spec == Init /\ [][Next]_vars

---------------------------------------------------------------------------
(* merge_intervals on every bounded input *)

Intervals == {iv \in (0..MaxT) \X (0..MaxT) : iv[1] <= iv[2]}

IntervalLists == UNION {[1..n -> Intervals] : n \in 0..MaxLen}

InitMerge ==
    /\ pc = "m_input"
    /\ intervals \in IntervalLists
    /\ merged = <<>>
    /\ remerged = <<>>
    /\ section = "none"
    /\ station_chargers = EmptyDict
    /\ charger_reports = EmptyDict
    /\ station_uptimes = EmptyDict
    /\ output = <<>>

MergeCall ==
    /\ pc = "m_input"
    /\ merged' = merge_intervals(intervals)
    /\ pc' = "m_merged"
    /\ UNCHANGED <<intervals, remerged, parseVars, mainVars>>

MergeAgain ==
    /\ pc = "m_merged"
    /\ remerged' = merge_intervals(merged)
    /\ pc' = "m_remerged"
    /\ UNCHANGED <<intervals, merged, parseVars, mainVars>>

NextMerge ==
    \/ MergeCall
    \/ MergeAgain

SpecMerge == InitMerge /\ [][NextMerge]_vars

---------------------------------------------------------------------------
(* What the output is measured against: the reports as sets of time points *)

SetMax(S) == CHOOSE x \in S : \A y \in S : x >= y

\* the reports of every charger declared under station sid
ReportsOf(sid) ==
    UNION {{charger_reports[c][i] : i \in DOMAIN charger_reports[c]} :
               c \in station_chargers[sid] \cap DOMAIN charger_reports}

WindowOf(sid) ==
    SetMax({r[2] : r \in ReportsOf(sid)}) - SetMin({r[1] : r \in ReportsOf(sid)})

\* the time points t, standing for [t, t+1), that some up report of sid covers
UpPoints(sid) ==
    {t \in 0..SetMax(Times) : \E r \in ReportsOf(sid) : r[3] /\ r[1] <= t /\ t < r[2]}

Declared == UNION {station_chargers[sid] : sid \in DOMAIN station_chargers}

\* the time points covered by a list of half-open intervals
Covered(ivs) == {t \in 0..MaxT : \E i \in DOMAIN ivs : ivs[i][1] <= t /\ t < ivs[i][2]}

\* fewest half-open intervals whose union is a set of points: its maximal runs
MinCard(points) == Cardinality({t \in points : (t - 1) \notin points})

Positive(ivs) == {i \in DOMAIN ivs : ivs[i][1] < ivs[i][2]}

---------------------------------------------------------------------------
(* Claims about the program, checked under Spec *)

\* C1: a station with reports and a positive span gets floor(100 * up / span),
\* the span taken over all its reports and up being the size of the union of
\* its up reports.
C1_FlooredUptime ==
    pc = "done" =>
        \A sid \in DOMAIN station_chargers :
            (ReportsOf(sid) # {} /\ WindowOf(sid) > 0) =>
                /\ sid \in DOMAIN station_uptimes
                /\ station_uptimes[sid] * WindowOf(sid) <= 100 * Cardinality(UpPoints(sid))
                /\ 100 * Cardinality(UpPoints(sid)) < (station_uptimes[sid] + 1) * WindowOf(sid)

\* a station with an up and a down report whose quotient is not a whole number
C1_Witness ==
    /\ pc = "done"
    /\ \E sid \in DOMAIN station_chargers :
         /\ ReportsOf(sid) # {}
         /\ WindowOf(sid) > 0
         /\ \E r \in ReportsOf(sid) : ~r[3]
         /\ (100 * Cardinality(UpPoints(sid))) % WindowOf(sid) # 0
         /\ station_uptimes[sid] = 33

\* C2: every percentage is in 0..100, and for a station with positive span
\* 0 <= up_time <= span, so the value is in range before it is clamped.
C2_InRangeUnclamped ==
    pc = "done" =>
        \A sid \in DOMAIN station_chargers :
            /\ sid \in DOMAIN station_uptimes
            /\ station_uptimes[sid] \in 0..100
            /\ \A order \in Orders(station_chargers[sid]) :
                 LET entries == all_entries(order, charger_reports) IN
                 (entries # <<>> /\ total_span(entries) > 0) =>
                    /\ 0 <= up_time(entries)
                    /\ up_time(entries) <= total_span(entries)
                    /\ uptime_pct(up_time(entries), total_span(entries)) \in 0..100

\* two chargers of a station up over the same window: the up reports add up
\* to more than the span, their union to exactly the span
C2_Witness ==
    /\ pc = "done"
    /\ \E sid \in DOMAIN station_chargers :
         /\ Cardinality(station_chargers[sid]) = 2
         /\ \A c \in station_chargers[sid] :
              c \in DOMAIN charger_reports /\ charger_reports[c] = <<<<0, 3, TRUE>>>>
         /\ station_uptimes[sid] = 100

\* C3: the result has exactly the declared stations as keys, and main prints
\* one line per key in strictly ascending station order.
C3_ExactlyDeclaredStations ==
    pc = "done" =>
        /\ DOMAIN station_uptimes = DOMAIN station_chargers
        /\ Len(output) = Cardinality(DOMAIN station_chargers)
        /\ \A i \in DOMAIN output :
             /\ output[i][1] \in DOMAIN station_uptimes
             /\ output[i][2] = station_uptimes[output[i][1]]
        /\ \A i, j \in DOMAIN output : i < j => output[i][1] < output[j][1]

\* both stations declared, one with reports and a positive uptime, one without reports
C3_Witness ==
    /\ pc = "done"
    /\ DOMAIN station_chargers = StationIds
    /\ \E sid \in StationIds : ReportsOf(sid) = {}
    /\ \E sid \in StationIds : ReportsOf(sid) # {} /\ station_uptimes[sid] > 0
    /\ Len(output) = 2

\* C4: a station with no report, or whose span is not positive, gets 0.
C4_MissingDataYieldsZero ==
    pc = "done" =>
        \A sid \in DOMAIN station_chargers :
            (ReportsOf(sid) = {} \/ WindowOf(sid) <= 0) =>
                /\ sid \in DOMAIN station_uptimes
                /\ station_uptimes[sid] = 0

\* one station whose only report is a zero-length up report, one with no report
C4_Witness ==
    /\ pc = "done"
    /\ \E sid \in DOMAIN station_chargers :
         /\ \E t \in Times : ReportsOf(sid) = {<<t, t, TRUE>>}
         /\ station_uptimes[sid] = 0
    /\ \E sid \in DOMAIN station_chargers :
         /\ ReportsOf(sid) = {}
         /\ station_uptimes[sid] = 0

\* C9: the reports of chargers declared under no station do not matter: the
\* result is the one computed from the declared chargers' reports alone.
C9_UndeclaredIgnored ==
    pc = "done" =>
        \A ord \in IterationOrders(station_chargers) :
            station_uptimes =
                compute_station_uptimes(
                    station_chargers,
                    [c \in (DOMAIN charger_reports) \cap Declared |-> charger_reports[c]],
                    ord)

\* an undeclared charger with an up report beside a station that has reports
C9_Witness ==
    /\ pc = "done"
    /\ \E c \in (DOMAIN charger_reports) \ Declared :
         \E i \in DOMAIN charger_reports[c] : charger_reports[c][i][3]
    /\ \E sid \in DOMAIN station_chargers :
         ReportsOf(sid) # {} /\ WindowOf(sid) > 0 /\ station_uptimes[sid] < 100

\* C10: as long as parsing has not exited with an error, no charger is in the
\* charger sets of two different stations.
C10_ChargerInOneStation ==
    pc # "error" =>
        \A s1, s2 \in DOMAIN station_chargers :
            s1 # s2 => station_chargers[s1] \cap station_chargers[s2] = {}

---------------------------------------------------------------------------
(* Claims about merge_intervals, checked under SpecMerge *)

\* C5: in the output every interval starts strictly after the one before it
\* ends, so touching intervals are merged and the output is sorted by start.
C5_StrictlyDisjoint ==
    pc = "m_merged" =>
        \A i \in 1..(Len(merged) - 1) :
            /\ merged[i + 1][1] > merged[i][2]
            /\ merged[i][1] < merged[i + 1][1]

\* an unsorted input with two touching intervals and a separate third one
C5_Witness ==
    /\ pc = "m_merged"
    /\ \E i, j \in DOMAIN intervals : i < j /\ intervals[i][1] > intervals[j][1]
    /\ \E i, j \in Positive(intervals) : intervals[i][2] = intervals[j][1]
    /\ Len(merged) = 2

\* C6: the lengths of the output add up to the number of time points covered
\* by the input.
C6_UnionLength ==
    pc = "m_merged" =>
        SeqSum(IntervalLengths(merged)) = Cardinality(Covered(intervals))

\* an input with an interval strictly inside another and a partial overlap
C6_Witness ==
    /\ pc = "m_merged"
    /\ \E i, j \in DOMAIN intervals :
         intervals[i][1] < intervals[j][1] /\ intervals[j][2] < intervals[i][2]
    /\ \E i, j \in DOMAIN intervals :
         /\ intervals[i][1] < intervals[j][1]
         /\ intervals[j][1] < intervals[i][2]
         /\ intervals[i][2] < intervals[j][2]
    /\ SeqSum(IntervalLengths(merged)) < SeqSum(IntervalLengths(intervals))

C8_Idempotent ==
    pc = "m_remerged" => remerged = merged

\* the first merge joined some intervals and kept at least two
C8_Witness ==
    /\ pc = "m_remerged"
    /\ Len(merged) >= 2
    /\ Len(merged) < Len(intervals)
    /\ remerged = merged

=============================================================================
